---- MODULE Spec2Model ----
(***************************************************************************)
(* A model of the two saga coordinators of the music-venue client:         *)
(*   - the ticket sagas (ticketFlow, purchaseTickets, releaseTickets,      *)
(*     cancelTransaction) of features/tickets/redux/ticketSaga, and        *)
(*   - the sign-in sagas (signInFlow, authenticateUser) of                 *)
(*     features/auth/redux/signInSaga.                                     *)
(* The saga modules themselves are not among the source files; the effects *)
(* each saga yields are taken from the saga tests (ticketSaga.test.ts and  *)
(* the signInFlow tests), which assert them one by one, and from the       *)
(* written specification where the tests are silent.                       *)
(*                                                                         *)
(* A saga runs to its next suspension point (a call to the server, a take  *)
(* or a race) without interleaving, so one action of the model is one such *)
(* segment: it starts with the event that resumes the saga (a dispatched   *)
(* action, a server call returning or throwing) and holds every effect the *)
(* saga yields until it suspends again.  A server call is pending while    *)
(* the program counter names it.                                           *)
(***************************************************************************)
EXTENDS Integers, Sequences, FiniteSets, TLC

VARIABLES
  \* ---- ticket sagas
  tPc,          \* where ticketFlow / purchaseTickets is suspended
  hold,         \* holdPayload of the running ticketFlow (NoRes when none)
  purchase,     \* purchaseReservation of the running purchaseTickets
  ticketAction, \* ticketSlice state read by selectors.getTicketAction
  tErr,         \* message of the error caught in the current transaction
  tLog,         \* effects yielded in the current transaction, in order
  outcome,      \* the path the current transaction took
  cancelTokenUsed, \* cancelSource.cancel was called for the running purchase
  latePurchase, \* an abandoned purchase call that may still come back
  abortAfterPurchase, \* startTicketAbort was dispatched after the purchase
                \* call of the current flow had returned
  cancelWhileReserving, \* startTicketRelease / startTicketAbort was dispatched
                \* while the hold call of the current transaction was pending
  \* ---- sign-in sagas
  aPc,          \* where signInFlow is suspended
  authCall,     \* state of the forked authenticateUser task
  creds,        \* SignInDetails of the running attempt
  userDetails,  \* authSlice state: the signed-in user (NoUser when none)
  signInStatus, \* authSlice state set by startSignIn / endSignIn
  aLog,         \* effects yielded in the current attempt, in order
  abandoned,    \* authServerCalls of cancelled attempts that may still come back
  authPhase,    \* the coordinator state of the written state machine
  staleSession, \* a sign-in attempt was started while a user was signed in
  authResponse, \* what authServerCall returned to the current attempt
  aErr,         \* message of the error authServerCall threw in the current attempt
  untaken,      \* types of the actions dispatched while the current attempt
                \* was in flight that signInFlow did not take
  strayCancel,  \* "dispatched": cancelSignIn was dispatched while signInFlow
                \* waited for a signInRequest; "attempt": and the next attempt
                \* has been started since; "none" otherwise
  \* ---- cleanup driver
  drvHold,      \* the hold handed to cancelTransaction by the driver
  drvLog,       \* effects of the driver's cancelTransaction invocations
  drvState,     \* reservation state seen by the driver
                \* ("held" before cleanup, "reset" after)
  \* ---- toast logging saga
  received,     \* payloads of the showToast actions handed to logErrorToasts
  logged        \* effects yielded by the runs of logErrorToasts, in order

ticketVars == <<tPc, hold, purchase, ticketAction, tErr, tLog, outcome,
                cancelTokenUsed, latePurchase, cancelWhileReserving,
                 abortAfterPurchase>>
authVars == <<aPc, authCall, creds, userDetails, signInStatus, aLog,
              abandoned, authPhase, staleSession, authResponse, aErr,
              strayCancel, untaken>>
drvVars == <<drvHold, drvLog, drvState>>
logVars == <<received, logged>>
vars == <<ticketVars, authVars, drvVars, logVars>>

(***************************************************************************)
(* Bounds of the model.                                                    *)
(***************************************************************************)
MaxShowId == 1
MaxSeatCount == 2
MaxHoldId == 3
MaxAbandoned == 1
MaxCleanups == 2
MaxUserId == 1
MaxToasts == 2

ShowIds == 0..MaxShowId
SeatCounts == 1..MaxSeatCount
HoldIds == 1..MaxHoldId
ErrorTexts == {"error", "purchase failed"}
ReleaseReasons == {"abort", "hold expired"}

NoRes == [showId |-> -1, holdId |-> -1, seatCount |-> 0]
Reservations == [showId : ShowIds, holdId : HoldIds, seatCount : SeatCounts]

(***************************************************************************)
(* Effects.  Every entry of a log has the same shape.                      *)
(***************************************************************************)
NoTitle == <<>>
Call(fn, res) == [kind |-> "call", name |-> fn, res |-> res,
                  title |-> NoTitle, status |-> ""]
Put(type) == [kind |-> "put", name |-> type, res |-> NoRes,
              title |-> NoTitle, status |-> ""]
ShowToast(options) == [kind |-> "put", name |-> "showToast", res |-> NoRes,
                       title |-> options.title, status |-> options.status]
Select(selector) == [kind |-> "select", name |-> selector, res |-> NoRes,
                     title |-> NoTitle, status |-> ""]

Calls(log, fn) == Len(SelectSeq(log, LAMBDA e : e.kind = "call" /\ e.name = fn))
CallsOn(log, fn, res) ==
  Len(SelectSeq(log, LAMBDA e : e.kind = "call" /\ e.name = fn /\ e.res = res))
Puts(log, type) == Len(SelectSeq(log, LAMBDA e : e.kind = "put" /\ e.name = type))
Toasts(log) == Len(SelectSeq(log, LAMBDA e : e.name = "showToast"))
ToastsWith(log, title, status) ==
  Len(SelectSeq(log, LAMBDA e : e.name = "showToast" /\ e.title = title
                                /\ e.status = status))
ToastsOfStatus(log, status) ==
  Len(SelectSeq(log, LAMBDA e : e.name = "showToast" /\ e.status = status))

(***************************************************************************)
(* Ticket sagas.                                                           *)
(***************************************************************************)
TicketActions == {"hold", "purchase", "release", "abort"}

\* selectors.getTicketAction: the last known ticket action, "hold" by default.
GetTicketAction == IF ticketAction \in TicketActions THEN ticketAction ELSE "hold"

\* generateErrorToastOptions(error, ticketAction): an error toast whose title
\* is built from the raw error text and the ticket action.
generateErrorToastOptions(error, action) ==
  [title |-> <<"error toast", error, action>>, status |-> "error"]

PurchasedToast == [title |-> <<"tickets purchased">>, status |-> "success"]
PurchaseCanceledToast == [title |-> <<"purchase canceled">>, status |-> "warning"]
ReasonToast(reason) == [title |-> <<reason>>, status |-> "warning"]

\* cancelTransaction(holdReservation): call releaseServerCall for the hold,
\* then put resetTransaction.  The first operator is the saga up to the
\* pending release call, the second what follows its return.
cancelTransactionCall(h) ==
  <<Call("cancelTransaction", h), Call("releaseServerCall", h)>>
\* (a variant that forgets to reset the transaction)
cancelTransactionReset_None == <<>>
\* (a variant that ends the transaction instead of resetting it)
cancelTransactionReset_End == <<Put("endTransaction")>>
cancelTransactionReset == <<Put("resetTransaction")>>

\* (a variant that releases the hold itself instead of calling cancelTransaction)
releaseTickets_NoCleanup(reservation, reason) ==
  <<Call("releaseTickets", reservation), ShowToast(ReasonToast(reason)),
    Call("releaseServerCall", reservation)>>
\* (a variant that releases the hold itself and then calls cancelTransaction)
releaseTickets_ReleasesFirst(reservation, reason) ==
  <<Call("releaseTickets", reservation), Call("releaseServerCall", reservation),
    ShowToast(ReasonToast(reason))>> \o cancelTransactionCall(reservation)
\* (a variant that cancels the transaction before it shows the toast)
releaseTickets_CleanupFirst(reservation, reason) ==
  <<Call("releaseTickets", reservation)>> \o cancelTransactionCall(reservation)
    \o <<ShowToast(ReasonToast(reason))>>
\* releaseTickets(payload): toast with the payload's reason, then
\* cancelTransaction of the payload's reservation.
releaseTickets(reservation, reason) ==
  <<Call("releaseTickets", reservation), ShowToast(ReasonToast(reason))>>
    \o cancelTransactionCall(reservation)

\* purchaseTickets(payload, cancelSource): the race of the purchase call
\* against take(startTicketAbort).
purchaseTicketsRace(p) ==
  <<Call("purchaseTickets", p), Call("reserveTicketServerCall", p)>>
\* (a variant that ends a successful purchase through cancelTransaction)
purchaseTicketsSuccess_Cleanup(h) ==
  <<ShowToast(PurchasedToast)>> \o cancelTransactionCall(h)
\* ... the branch taken when the purchase call wins the race
purchaseTicketsSuccess(h) ==
  <<ShowToast(PurchasedToast), Call("releaseServerCall", h)>>
\* (a variant that resets instead of ending the transaction)
purchaseTicketsEnd_Reset == <<Put("resetTransaction")>>
purchaseTicketsEnd == <<Put("endTransaction")>>
\* (a variant that cancels the purchase on the server before it uses the
\* cancel token)
purchaseTicketsAbort_ServerFirst(p) ==
  <<Call("cancelPurchaseServerCall", p), Call("cancelSource.cancel", NoRes)>>
\* (a variant that cancels the purchase on the server only)
purchaseTicketsAbort_NoToken(p) == <<Call("cancelPurchaseServerCall", p)>>
\* ... the branch taken when the abort action wins the race
purchaseTicketsAbort(p) ==
  <<Call("cancelSource.cancel", NoRes), Call("cancelPurchaseServerCall", p)>>
\* (a variant that forgets the "purchase canceled" toast)
purchaseTicketsAbortCleanup_NoToast(h) == cancelTransactionCall(h)
purchaseTicketsAbortCleanup(h) ==
  <<ShowToast(PurchaseCanceledToast)>> \o cancelTransactionCall(h)
\* (a variant that leaves the failed purchase to the server)
purchaseTicketsCatch_Skip(p) == <<>>
\* ... the purchase call throws: cancel the purchase on the server, then
\* the error goes on to ticketFlow
purchaseTicketsCatch(p) == <<Call("cancelPurchaseServerCall", p)>>

\* (a variant that reports the purchase action whatever the state says)
ticketFlowCatch_PurchaseIntent(message, action, h) ==
  <<Select("getTicketAction"),
    ShowToast(generateErrorToastOptions(message, "purchase"))>>
    \o cancelTransactionCall(h)
\* (a variant that tries the hold call again before giving up)
ticketFlowCatch_Retry(message, action, h) ==
  <<Call("reserveTicketServerCall", h), Select("getTicketAction"),
    ShowToast(generateErrorToastOptions(message, action))>>
    \o cancelTransactionCall(h)
\* ticketFlow's error path: read the ticket action, show the error toast,
\* cancel the transaction of the hold payload.
ticketFlowCatch(message, action, h) ==
  <<Select("getTicketAction"),
    ShowToast(generateErrorToastOptions(message, action))>>
    \o cancelTransactionCall(h)

TicketInit ==
  /\ tPc = "idle"
  /\ hold = NoRes
  /\ purchase = NoRes
  /\ ticketAction = "none"
  /\ tErr = ""
  /\ tLog = <<>>
  /\ outcome = "none"
  /\ cancelTokenUsed = FALSE
  /\ latePurchase = FALSE
  /\ cancelWhileReserving = FALSE
  /\ abortAfterPurchase = FALSE

\* startTicketHold is dispatched: ticketFlow starts and calls
\* reserveTicketServerCall with the hold payload.
StartHold(h) ==
  /\ tPc = "idle"
  /\ hold' = h
  /\ purchase' = NoRes
  /\ ticketAction' = "hold"
  /\ tErr' = ""
  /\ tLog' = <<Call("reserveTicketServerCall", h)>>
  /\ outcome' = "none"
  /\ cancelTokenUsed' = FALSE
  /\ tPc' = "reserving"
  /\ cancelWhileReserving' = FALSE
  /\ abortAfterPurchase' = FALSE
  /\ UNCHANGED latePurchase

\* The hold call returns: ticketFlow takes the next of startTicketPurchase,
\* startTicketRelease, startTicketAbort.
ReserveReturns ==
  /\ tPc = "reserving"
  /\ tPc' = "held"
  /\ UNCHANGED <<hold, purchase, ticketAction, tErr, tLog, outcome,
                 cancelTokenUsed, latePurchase, cancelWhileReserving,
                 abortAfterPurchase>>

\* The hold call throws: ticketFlow's catch block.
ReserveThrows(message) ==
  /\ tPc = "reserving"
  /\ tErr' = message
  /\ tLog' = tLog \o ticketFlowCatch(message, GetTicketAction, hold)
  /\ outcome' = "holdFailed"
  /\ tPc' = "cleanupRelease"
  /\ UNCHANGED <<hold, purchase, ticketAction, cancelTokenUsed, latePurchase,
                 cancelWhileReserving,
                 abortAfterPurchase>>

\* startTicketRelease / startTicketAbort is dispatched while neither
\* ticketFlow's take nor purchaseTickets' race waits for it: no saga takes
\* the action.  While the hold call is pending ticketFlow is suspended in
\* call(reserveTicketServerCall, holdPayload), a call without a cancel token.
NotTaken(trigger) ==
  /\ cancelWhileReserving' = (cancelWhileReserving \/ tPc = "reserving")
  /\ abortAfterPurchase' = (abortAfterPurchase
                            \/ (trigger = "startTicketAbort" /\ outcome = "purchased"))
  /\ UNCHANGED <<tPc, hold, purchase, ticketAction, tErr, tLog, outcome,
                 cancelTokenUsed, latePurchase>>

\* startTicketPurchase is dispatched.  Taken by ticketFlow when it waits
\* after the hold: it calls purchaseTickets, which starts the race.
StartPurchase(p) ==
  IF tPc = "held"
  THEN /\ purchase' = p
       /\ tLog' = tLog \o purchaseTicketsRace(p)
       /\ tPc' = "racing"
       /\ UNCHANGED <<hold, ticketAction, tErr, outcome, cancelTokenUsed,
                      latePurchase, cancelWhileReserving,
                 abortAfterPurchase>>
  ELSE UNCHANGED ticketVars

\* (a variant in which startTicketRelease is handled whether or not a
\* ticketFlow waits for it)
StartRelease_Anytime(reason) ==
  /\ tLog' = tLog \o releaseTickets(IF tLog = <<>> THEN NoRes ELSE Head(tLog).res, reason)
  /\ outcome' = "released"
  /\ tPc' = IF tPc = "held" THEN "cleanupRelease" ELSE tPc
  /\ UNCHANGED <<hold, purchase, ticketAction, tErr, cancelTokenUsed,
                 latePurchase, cancelWhileReserving,
                 abortAfterPurchase>>
\* startTicketRelease is dispatched.  Taken by ticketFlow when it waits
\* after the hold: it calls releaseTickets.
StartRelease(reason) ==
  IF tPc = "held"
  THEN /\ tLog' = tLog \o releaseTickets(hold, reason)
       /\ outcome' = "released"
       /\ tPc' = "cleanupRelease"
       /\ UNCHANGED <<hold, purchase, ticketAction, tErr, cancelTokenUsed,
                      latePurchase, cancelWhileReserving,
                 abortAfterPurchase>>
  ELSE NotTaken("startTicketRelease")

\* (a variant in which the abort does not end the race: the purchase call
\* can still win it afterwards)
StartAbort_KeepsRace(reason) ==
  CASE tPc = "held" ->
         /\ tLog' = tLog \o releaseTickets(hold, reason)
         /\ outcome' = "aborted"
         /\ tPc' = "cleanupRelease"
         /\ UNCHANGED <<hold, purchase, ticketAction, tErr, cancelTokenUsed,
                        latePurchase, cancelWhileReserving,
                 abortAfterPurchase>>
    [] tPc = "racing" ->
         /\ tLog' = tLog \o purchaseTicketsAbort(purchase)
         /\ cancelTokenUsed' = (Calls(tLog', "cancelSource.cancel") > 0)
         /\ outcome' = "purchaseCancelled"
         /\ UNCHANGED <<tPc, hold, purchase, ticketAction, tErr, latePurchase,
                        cancelWhileReserving,
                 abortAfterPurchase>>
    [] OTHER -> NotTaken("startTicketAbort")
\* (a variant in which ticketFlow's own take is still open during the race
\* and sends the abort down the release path)
StartAbort_AlwaysReleases(reason) ==
  IF tPc \in {"held", "racing"}
  THEN /\ tLog' = tLog \o releaseTickets(hold, reason)
       /\ outcome' = "aborted"
       /\ tPc' = "cleanupRelease"
       /\ UNCHANGED <<hold, purchase, ticketAction, tErr, cancelTokenUsed,
                      latePurchase, cancelWhileReserving,
                 abortAfterPurchase>>
  ELSE NotTaken("startTicketAbort")
\* (a variant in which the race of purchaseTickets still takes the abort
\* after the purchase call has returned)
StartAbort_AfterPurchase(reason) ==
  CASE tPc = "held" ->
         /\ tLog' = tLog \o releaseTickets(hold, reason)
         /\ outcome' = "aborted"
         /\ tPc' = "cleanupRelease"
         /\ UNCHANGED <<hold, purchase, ticketAction, tErr, cancelTokenUsed,
                        latePurchase, cancelWhileReserving, abortAfterPurchase>>
    [] tPc \in {"racing", "successRelease"} ->
         /\ tLog' = tLog \o purchaseTicketsAbort(purchase)
         /\ cancelTokenUsed' = (Calls(tLog', "cancelSource.cancel") > 0)
         /\ latePurchase' = (tPc = "racing")
         /\ abortAfterPurchase' = (abortAfterPurchase \/ tPc = "successRelease")
         /\ outcome' = "purchaseCancelled"
         /\ tPc' = "abortCancelPurchase"
         /\ UNCHANGED <<hold, purchase, ticketAction, tErr, cancelWhileReserving>>
    [] OTHER -> NotTaken("startTicketAbort")
\* startTicketAbort is dispatched.  Taken by ticketFlow when it waits after
\* the hold (releaseTickets), and by the race of purchaseTickets while the
\* purchase call is pending (the abort branch; the purchase call is left
\* behind).
StartAbort(reason) ==
  CASE tPc = "held" ->
         /\ tLog' = tLog \o releaseTickets(hold, reason)
         /\ outcome' = "aborted"
         /\ tPc' = "cleanupRelease"
         /\ UNCHANGED <<hold, purchase, ticketAction, tErr, cancelTokenUsed,
                        latePurchase, cancelWhileReserving,
                 abortAfterPurchase>>
    [] tPc = "racing" ->
         /\ tLog' = tLog \o purchaseTicketsAbort(purchase)
         /\ cancelTokenUsed' = (Calls(tLog', "cancelSource.cancel") > 0)
         /\ latePurchase' = TRUE
         /\ outcome' = "purchaseCancelled"
         /\ tPc' = "abortCancelPurchase"
         /\ UNCHANGED <<hold, purchase, ticketAction, tErr, cancelWhileReserving,
                 abortAfterPurchase>>
    [] OTHER -> NotTaken("startTicketAbort")

\* The purchase call returns first: the success branch of purchaseTickets.
PurchaseReturns ==
  /\ tPc = "racing"
  /\ tLog' = tLog \o purchaseTicketsSuccess(hold)
  /\ outcome' = "purchased"
  /\ tPc' = "successRelease"
  /\ UNCHANGED <<hold, purchase, ticketAction, tErr, cancelTokenUsed, latePurchase,
                 cancelWhileReserving,
                 abortAfterPurchase>>

\* The purchase call throws first: purchaseTickets' catch block.
PurchaseThrows(message) ==
  /\ tPc = "racing"
  /\ tErr' = message
  /\ tLog' = tLog \o purchaseTicketsCatch(purchase)
  /\ outcome' = "purchaseFailed"
  /\ tPc' = "failCancelPurchase"
  /\ UNCHANGED <<hold, purchase, ticketAction, cancelTokenUsed, latePurchase,
                 cancelWhileReserving,
                 abortAfterPurchase>>

\* (a variant in which the error of a failed purchase never reaches
\* ticketFlow's catch block)
CancelPurchaseReturns_AbortOnly ==
  /\ tPc = "abortCancelPurchase"
  /\ tLog' = tLog \o purchaseTicketsAbortCleanup(hold)
  /\ tPc' = "cleanupRelease"
  /\ UNCHANGED <<hold, purchase, ticketAction, tErr, outcome, cancelTokenUsed,
                 latePurchase, cancelWhileReserving,
                 abortAfterPurchase>>
\* cancelPurchaseServerCall returns.  On the abort branch purchaseTickets
\* goes on to the toast and cancelTransaction; on the error path the error
\* reaches ticketFlow's catch block.
CancelPurchaseReturns ==
  /\ tPc \in {"abortCancelPurchase", "failCancelPurchase"}
  /\ tLog' = tLog \o (IF tPc = "abortCancelPurchase"
                      THEN purchaseTicketsAbortCleanup(hold)
                      ELSE ticketFlowCatch(tErr, GetTicketAction, hold))
  /\ tPc' = "cleanupRelease"
  /\ UNCHANGED <<hold, purchase, ticketAction, tErr, outcome, cancelTokenUsed,
                 latePurchase, cancelWhileReserving,
                 abortAfterPurchase>>

\* releaseServerCall returns.  Inside cancelTransaction it is followed by
\* resetTransaction, after a purchase by endTransaction; either way the
\* flow is over and no hold is kept in the ticket state.
ReleaseReturns ==
  /\ tPc \in {"cleanupRelease", "successRelease"}
  /\ tLog' = tLog \o (IF tPc = "cleanupRelease"
                      THEN cancelTransactionReset
                      ELSE purchaseTicketsEnd)
  /\ tPc' = "idle"
  /\ hold' = NoRes
  /\ purchase' = NoRes
  /\ ticketAction' = "none"
  /\ UNCHANGED <<tErr, outcome, cancelTokenUsed, latePurchase, cancelWhileReserving,
                 abortAfterPurchase>>

\* The purchase call that lost the race comes back: nobody waits for it.
LatePurchaseReturns ==
  /\ latePurchase
  /\ latePurchase' = FALSE
  /\ UNCHANGED <<tPc, hold, purchase, ticketAction, tErr, tLog, outcome,
                 cancelTokenUsed, cancelWhileReserving,
                 abortAfterPurchase>>

TicketNext ==
  \/ /\ \E h \in Reservations : StartHold(h)
     /\ UNCHANGED <<authVars, drvVars, logVars>>
  \/ /\ ReserveReturns
     /\ UNCHANGED <<authVars, drvVars, logVars>>
  \/ /\ \E m \in ErrorTexts : ReserveThrows(m)
     /\ UNCHANGED <<authVars, drvVars, logVars>>
  \/ /\ \E i \in HoldIds :
          StartPurchase([showId |-> hold.showId, holdId |-> i,
                         seatCount |-> hold.seatCount])
     /\ UNCHANGED <<authVars, drvVars, logVars>>
  \/ /\ \E r \in ReleaseReasons : StartRelease(r)
     /\ UNCHANGED <<authVars, drvVars, logVars>>
  \/ /\ \E r \in ReleaseReasons : StartAbort(r)
     /\ UNCHANGED <<authVars, drvVars, logVars>>
  \/ /\ PurchaseReturns
     /\ UNCHANGED <<authVars, drvVars, logVars>>
  \/ /\ \E m \in ErrorTexts : PurchaseThrows(m)
     /\ UNCHANGED <<authVars, drvVars, logVars>>
  \/ /\ CancelPurchaseReturns
     /\ UNCHANGED <<authVars, drvVars, logVars>>
  \/ /\ ReleaseReturns
     /\ UNCHANGED <<authVars, drvVars, logVars>>
  \/ /\ LatePurchaseReturns
     /\ UNCHANGED <<authVars, drvVars, logVars>>

(***************************************************************************)
(* Sign-in sagas.                                                          *)
(***************************************************************************)
Emails == {"user@user.com", "other@user.com"}
AuthActions == {"signIn", "signUp"}
AuthErrors == {"Something went wrong", "Email is already in use"}
SignInDetails == [email : Emails, action : AuthActions]
NoDetails == [email |-> "", action |-> ""]
\* LoggedInUser, the response of authServerCall
LoggedInUsers == [id : 0..MaxUserId, email : Emails, token : {"12345"}]
NoUser == [id |-> -1, email |-> "", token |-> ""]

\* (a variant that greets with the email typed into the form)
SignedInToast_Static(user) ==
  [title |-> <<"Signed in as", "user@user.com">>, status |-> "info"]
SignedInToast(user) == [title |-> <<"Signed in as", user.email>>, status |-> "info"]
\* (a variant that hides the reason of the failure)
SignInFailedToast_NoReason(message) ==
  [title |-> <<"Sign in failed:", "Something went wrong">>, status |-> "warning"]
SignInFailedToast(message) ==
  [title |-> <<"Sign in failed:", message>>, status |-> "warning"]
SignInCanceledToast == [title |-> <<"Sign in canceled">>, status |-> "warning"]

\* authSlice reducers, as far as the sagas and the components use them:
\* signIn stores the user, signOut drops it.
signInReducer(user) == user
signOutReducer == NoUser

\* (a variant that also waits for the next signInRequest while an attempt
\* is in flight)
signInFlowTakes_Request == {"cancelSignIn", "endSignIn", "signInRequest"}
\* (a variant that also waits for signOut while an attempt is in flight)
signInFlowTakes_SignOut == {"cancelSignIn", "endSignIn", "signOut"}
\* The action types signInFlow takes while the forked task is in flight:
\* take([cancelSignIn.type, endSignIn.type]).
signInFlowTakes == {"cancelSignIn", "endSignIn"}

\* signInFlow forks authenticateUser(payload), which puts startSignIn and
\* calls authServerCall; signInFlow then takes cancelSignIn or endSignIn.
signInFlowFork(details) ==
  <<Call("fork authenticateUser", NoRes), Put("startSignIn"),
    Call("authServerCall", NoRes)>>
\* (a variant that does not put endSignIn after a success)
authenticateUserSuccess_NoEnd(user) ==
  <<Put("signIn"), ShowToast(SignedInToast(user))>>
\* (a variant that forgets to store the user)
authenticateUserSuccess_NoSignIn(user) ==
  <<ShowToast(SignedInToast(user)), Put("endSignIn")>>
\* authenticateUser after authServerCall returned `user`
authenticateUserSuccess(user) ==
  <<Put("signIn"), ShowToast(SignedInToast(user)), Put("endSignIn")>>
\* (a variant that asks the server once more before it gives up)
authenticateUserFailure_Retry(message) ==
  <<Call("authServerCall", NoRes), ShowToast(SignInFailedToast(message)),
    Put("endSignIn")>>
\* (a variant that does not put endSignIn after a failure)
authenticateUserFailure_NoEnd(message) ==
  <<ShowToast(SignInFailedToast(message))>>
\* authenticateUser after authServerCall threw
authenticateUserFailure(message) ==
  <<ShowToast(SignInFailedToast(message)), Put("endSignIn")>>
\* (a variant that signs out before it cancels the task)
signInFlowCancel_SignOutFirst ==
  <<Put("signOut"), Call("cancel task", NoRes), ShowToast(SignInCanceledToast),
    Put("endSignIn")>>
\* (a variant that cancels silently)
signInFlowCancel_NoToast ==
  <<Call("cancel task", NoRes), Put("signOut"), Put("endSignIn")>>
\* signInFlow took cancelSignIn: cancel the task; the cancelled attempt shows
\* the toast, signs out and ends the sign-in.
signInFlowCancel ==
  <<Call("cancel task", NoRes), ShowToast(SignInCanceledToast),
    Put("signOut"), Put("endSignIn")>>
\* (a variant in which the cancel does not reach the task)
cancelTask_Noop(task) == task
\* the state of a forked task after cancel(task)
cancelTask(task) == "cancelled"
\* what a cancelled task does with the response its server call brings back
cancelledTaskResult(current, user) == current

HasPut(effects, type) == Puts(effects, type) > 0

AuthInit ==
  /\ aPc = "awaiting"
  /\ authCall = "none"
  /\ creds = NoDetails
  /\ userDetails = NoUser
  /\ signInStatus = "idle"
  /\ aLog = <<>>
  /\ abandoned = 0
  /\ authPhase = "AwaitingCredentials"
  /\ staleSession = FALSE
  /\ authResponse = NoUser
  /\ aErr = ""
  /\ strayCancel = "none"
  /\ untaken = {}

\* (a variant in which signInFlow reads its actions from a buffer: a
\* cancelSignIn dispatched earlier is still there when the attempt starts)
SignInRequest_Buffered(details) ==
  IF aPc = "awaiting"
  THEN /\ creds' = details
       /\ aLog' = IF strayCancel = "dispatched"
                  THEN signInFlowFork(details) \o signInFlowCancel
                  ELSE signInFlowFork(details)
       /\ signInStatus' = IF strayCancel = "dispatched" THEN "idle" ELSE "pending"
       /\ authCall' = IF strayCancel = "dispatched" THEN "cancelled" ELSE "pending"
       /\ aPc' = IF strayCancel = "dispatched" THEN "awaiting" ELSE "authenticating"
       /\ authPhase' = IF strayCancel = "dispatched"
                       THEN "AwaitingCredentials" ELSE "Authenticating"
       /\ staleSession' = (userDetails # NoUser)
       /\ authResponse' = NoUser
       /\ aErr' = ""
       /\ strayCancel' = IF strayCancel = "dispatched" THEN "attempt" ELSE "none"
       /\ untaken' = {}
       /\ UNCHANGED <<userDetails, abandoned>>
  ELSE UNCHANGED authVars
\* signInRequest is dispatched.  Taken by signInFlow when it waits at the top
\* of its loop; nobody takes it while an attempt is in flight.
SignInRequest(details) ==
  IF aPc = "awaiting"
  THEN /\ creds' = details
       /\ aLog' = signInFlowFork(details)
       /\ signInStatus' = IF HasPut(aLog', "startSignIn") THEN "pending" ELSE signInStatus
       /\ authCall' = "pending"
       /\ aPc' = "authenticating"
       /\ authPhase' = "Authenticating"
       /\ staleSession' = (userDetails # NoUser)
       /\ authResponse' = NoUser
       /\ aErr' = ""
       /\ strayCancel' = IF strayCancel = "dispatched" THEN "attempt" ELSE "none"
       /\ untaken' = {}
       /\ UNCHANGED <<userDetails, abandoned>>
  ELSE IF "signInRequest" \in signInFlowTakes
       THEN /\ creds' = details
            /\ aLog' = aLog \o signInFlowFork(details)
            /\ UNCHANGED <<aPc, authCall, userDetails, signInStatus, abandoned,
                           authPhase, staleSession, authResponse, aErr,
                           strayCancel, untaken>>
       ELSE /\ untaken' = untaken \cup {"signInRequest"}
            /\ UNCHANGED <<aPc, authCall, creds, userDetails, signInStatus, aLog,
                           abandoned, authPhase, staleSession, authResponse,
                           aErr, strayCancel>>

\* authServerCall returns `user` to the running authenticateUser task, whose
\* endSignIn sends signInFlow back to the top of its loop.
AuthReturns(user) ==
  /\ authCall = "pending"
  /\ LET effects == authenticateUserSuccess(user)
     IN /\ aLog' = aLog \o effects
        /\ userDetails' = IF HasPut(effects, "signIn")
                          THEN signInReducer(user) ELSE userDetails
        /\ signInStatus' = IF HasPut(effects, "endSignIn") THEN "idle" ELSE signInStatus
        /\ aPc' = IF HasPut(effects, "endSignIn") THEN "awaiting" ELSE aPc
  /\ authCall' = "none"
  /\ authPhase' = "SignedIn"
  /\ staleSession' = FALSE
  /\ authResponse' = user
  /\ UNCHANGED <<creds, abandoned, aErr, strayCancel, untaken>>

\* authServerCall throws in the running authenticateUser task.
AuthThrows(message) ==
  /\ authCall = "pending"
  /\ LET effects == authenticateUserFailure(message)
     IN /\ aLog' = aLog \o effects
        /\ signInStatus' = IF HasPut(effects, "endSignIn") THEN "idle" ELSE signInStatus
        /\ aPc' = IF HasPut(effects, "endSignIn") THEN "awaiting" ELSE aPc
  /\ authCall' = "none"
  /\ authPhase' = "AwaitingCredentials"
  /\ aErr' = message
  /\ UNCHANGED <<creds, userDetails, abandoned, staleSession, authResponse,
                 strayCancel, untaken>>

\* cancelSignIn is dispatched.  Taken by signInFlow while an attempt is in
\* flight; the server call of the cancelled task is left behind.
CancelSignIn ==
  IF aPc = "authenticating"
  THEN /\ aLog' = aLog \o signInFlowCancel
       /\ authCall' = cancelTask(authCall)
       /\ abandoned' = IF authCall' = "cancelled" /\ abandoned < MaxAbandoned
                       THEN abandoned + 1 ELSE abandoned
       /\ userDetails' = IF HasPut(signInFlowCancel, "signOut")
                         THEN signOutReducer ELSE userDetails
       /\ signInStatus' = "idle"
       /\ aPc' = "awaiting"
       /\ authPhase' = "AwaitingCredentials"
       /\ staleSession' = (staleSession /\ userDetails' # NoUser)
       /\ strayCancel' = "none"
       /\ UNCHANGED <<creds, authResponse, aErr, untaken>>
  ELSE /\ strayCancel' = "dispatched"
       /\ UNCHANGED <<aPc, authCall, creds, userDetails, signInStatus, aLog,
                      abandoned, authPhase, staleSession, authResponse, aErr,
                      untaken>>

\* signOut is dispatched (the SIGN OUT button): the reducer handles it.
\* signInFlow does not wait for it; if it did, it would cancel the task in
\* flight as it does for the other action it takes there.
SignOut ==
  IF aPc = "authenticating" /\ "signOut" \in signInFlowTakes
  THEN /\ aLog' = aLog \o <<Call("cancel task", NoRes)>>
       /\ authCall' = cancelTask(authCall)
       /\ userDetails' = signOutReducer
       /\ signInStatus' = "idle"
       /\ aPc' = "awaiting"
       /\ authPhase' = "AwaitingCredentials"
       /\ staleSession' = FALSE
       /\ UNCHANGED <<creds, abandoned, authResponse, aErr, strayCancel, untaken>>
  ELSE /\ userDetails' = signOutReducer
       /\ authPhase' = IF authPhase = "SignedIn" THEN "AwaitingCredentials" ELSE authPhase
       /\ staleSession' = FALSE
       /\ untaken' = IF aPc = "authenticating" THEN untaken \cup {"signOut"} ELSE untaken
       /\ UNCHANGED <<aPc, authCall, creds, signInStatus, aLog, abandoned,
                      authResponse, aErr, strayCancel>>

\* The server call of a cancelled task comes back with `user`.
LateAuthReturns(user) ==
  /\ abandoned > 0
  /\ abandoned' = abandoned - 1
  /\ userDetails' = cancelledTaskResult(userDetails, user)
  /\ UNCHANGED <<aPc, authCall, creds, signInStatus, aLog, authPhase,
                 staleSession, authResponse, aErr, strayCancel, untaken>>

AuthNext ==
  \/ /\ \E d \in SignInDetails : SignInRequest(d)
     /\ UNCHANGED <<ticketVars, drvVars, logVars>>
  \/ /\ \E u \in LoggedInUsers : AuthReturns(u)
     /\ UNCHANGED <<ticketVars, drvVars, logVars>>
  \/ /\ \E m \in AuthErrors : AuthThrows(m)
     /\ UNCHANGED <<ticketVars, drvVars, logVars>>
  \/ /\ CancelSignIn
     /\ UNCHANGED <<ticketVars, drvVars, logVars>>
  \/ /\ SignOut
     /\ UNCHANGED <<ticketVars, drvVars, logVars>>
  \/ /\ \E u \in LoggedInUsers : LateAuthReturns(u)
     /\ UNCHANGED <<ticketVars, drvVars, logVars>>

(***************************************************************************)
(* cancelTransaction run on its own, as often as the driver likes and on   *)
(* whatever reservation it likes, the server calls answered at once.       *)
(***************************************************************************)
DrvInit ==
  /\ drvHold = NoRes
  /\ drvLog = <<>>
  /\ drvState = "held"

RunCancelTransaction(h) ==
  /\ Calls(drvLog, "cancelTransaction") < MaxCleanups
  /\ drvHold' = h
  /\ drvLog' = drvLog \o cancelTransactionCall(h) \o cancelTransactionReset
  /\ drvState' = IF HasPut(drvLog', "resetTransaction") THEN "reset" ELSE drvState

DrvNext ==
  \/ /\ \E h \in Reservations : RunCancelTransaction(h)
     /\ UNCHANGED <<ticketVars, authVars, logVars>>

(***************************************************************************)
(* Toast logging saga: watchToasts hands every showToast action to         *)
(* logErrorToasts.                                                         *)
(***************************************************************************)
ToastTitles == {<<"It's time to panic">>, <<"It's OK!">>, <<"abort">>}
ToastStatuses == {"info", "warning", "success", "error"}
ToastOptions == [title : ToastTitles, status : ToastStatuses]
\* call(logErrorToast, title)
CallLogErrorToast(title) ==
  [kind |-> "call", name |-> "logErrorToast", res |-> NoRes,
   title |-> title, status |-> ""]

\* (a variant that sends every toast to analytics)
logErrorToasts_Any(payload) == <<CallLogErrorToast(payload.title)>>
\* logErrorToasts({ payload }): call logErrorToast(title) for an error toast
logErrorToasts(payload) ==
  IF payload.status = "error" THEN <<CallLogErrorToast(payload.title)>> ELSE <<>>

LogInit ==
  /\ received = <<>>
  /\ logged = <<>>

\* A showToast action with `payload` is dispatched and logErrorToasts runs
\* on it to its end.
RunLogErrorToasts(payload) ==
  /\ Len(received) < MaxToasts
  /\ received' = Append(received, payload)
  /\ logged' = logged \o logErrorToasts(payload)

LogNext ==
  \/ /\ \E o \in ToastOptions : RunLogErrorToasts(o)
     /\ UNCHANGED <<ticketVars, authVars, drvVars>>

(***************************************************************************)
(* Specifications.                                                         *)
(***************************************************************************)
Init == TicketInit /\ AuthInit /\ DrvInit /\ LogInit

TicketSpec == Init /\ [][TicketNext]_vars
AuthSpec == Init /\ [][AuthNext]_vars
CleanupSpec == Init /\ [][DrvNext]_vars
ToastLogSpec == Init /\ [][LogNext]_vars

\* Both coordinators of one application session, each reacting to its own
\* triggers, in any interleaving.  The session books seats of one show, one
\* seat at a time, and signs in with one email; the server answers with the
\* user of id 0.
AppReservations == {r \in Reservations : r.showId = 0 /\ r.seatCount = 1}
AppDetails == {d \in SignInDetails : d.email = "user@user.com"}
AppUsers == {u \in LoggedInUsers : u.id = 0}
AppNext ==
  \/ /\ \E h \in AppReservations : StartHold(h)
     /\ UNCHANGED <<authVars, drvVars, logVars>>
  \/ /\ ReserveReturns
     /\ UNCHANGED <<authVars, drvVars, logVars>>
  \/ /\ \E m \in ErrorTexts : ReserveThrows(m)
     /\ UNCHANGED <<authVars, drvVars, logVars>>
  \/ /\ \E i \in HoldIds :
          StartPurchase([showId |-> hold.showId, holdId |-> i,
                         seatCount |-> hold.seatCount])
     /\ UNCHANGED <<authVars, drvVars, logVars>>
  \/ /\ \E r \in ReleaseReasons : StartRelease(r)
     /\ UNCHANGED <<authVars, drvVars, logVars>>
  \/ /\ \E r \in ReleaseReasons : StartAbort(r)
     /\ UNCHANGED <<authVars, drvVars, logVars>>
  \/ /\ PurchaseReturns
     /\ UNCHANGED <<authVars, drvVars, logVars>>
  \/ /\ \E m \in ErrorTexts : PurchaseThrows(m)
     /\ UNCHANGED <<authVars, drvVars, logVars>>
  \/ /\ CancelPurchaseReturns
     /\ UNCHANGED <<authVars, drvVars, logVars>>
  \/ /\ ReleaseReturns
     /\ UNCHANGED <<authVars, drvVars, logVars>>
  \/ /\ LatePurchaseReturns
     /\ UNCHANGED <<authVars, drvVars, logVars>>
  \/ /\ \E d \in AppDetails : SignInRequest(d)
     /\ UNCHANGED <<ticketVars, drvVars, logVars>>
  \/ /\ \E u \in AppUsers : AuthReturns(u)
     /\ UNCHANGED <<ticketVars, drvVars, logVars>>
  \/ /\ \E m \in AuthErrors : AuthThrows(m)
     /\ UNCHANGED <<ticketVars, drvVars, logVars>>
  \/ /\ CancelSignIn
     /\ UNCHANGED <<ticketVars, drvVars, logVars>>
  \/ /\ SignOut
     /\ UNCHANGED <<ticketVars, drvVars, logVars>>
  \/ /\ \E u \in AppUsers : LateAuthReturns(u)
     /\ UNCHANGED <<ticketVars, drvVars, logVars>>
AppSpec == Init /\ [][AppNext]_vars

\* Every call to the server the ticket sagas wait for is answered in the
\* end: it returns or it throws.
TicketCallSettles ==
  /\ \/ ReserveReturns
     \/ \E m \in ErrorTexts : ReserveThrows(m)
     \/ PurchaseReturns
     \/ \E m \in ErrorTexts : PurchaseThrows(m)
     \/ CancelPurchaseReturns
     \/ ReleaseReturns
  /\ UNCHANGED <<authVars, drvVars, logVars>>
\* While ticketFlow waits with a hold, the user purchases, releases or
\* aborts in the end.
TriggerAfterHold ==
  /\ tPc = "held"
  /\ \/ \E i \in HoldIds :
          StartPurchase([showId |-> hold.showId, holdId |-> i,
                         seatCount |-> hold.seatCount])
     \/ \E r \in ReleaseReasons : StartRelease(r)
     \/ \E r \in ReleaseReasons : StartAbort(r)
  /\ UNCHANGED <<authVars, drvVars, logVars>>
TicketFairSpec ==
  TicketSpec /\ WF_vars(TicketCallSettles) /\ WF_vars(TriggerAfterHold)

\* authServerCall is a request to the server that is answered in the end:
\* a pending call returns or throws.
AuthCallSettles ==
  /\ \/ \E u \in LoggedInUsers : AuthReturns(u)
     \/ \E m \in AuthErrors : AuthThrows(m)
  /\ UNCHANGED <<ticketVars, drvVars, logVars>>
AuthFairSpec == AuthSpec /\ WF_vars(AuthCallSettles)

(***************************************************************************)
(* Properties of the ticket sagas (TicketSpec).                            *)
(***************************************************************************)
\* The hold payload and the purchase reservation of the transaction in tLog.
TxHold == IF tLog = <<>> THEN NoRes ELSE Head(tLog).res
TxPurchase ==
  LET ps == SelectSeq(tLog, LAMBDA e : e.kind = "call" /\ e.name = "purchaseTickets")
  IN IF ps = <<>> THEN NoRes ELSE Head(ps).res
Settled == tPc = "idle" /\ outcome # "none"
RaceOutcomes == {"purchased", "purchaseCancelled", "purchaseFailed"}
RaceNotifications ==
  ToastsWith(tLog, PurchasedToast.title, PurchasedToast.status)
  + ToastsWith(tLog, PurchaseCanceledToast.title, PurchaseCanceledToast.status)
  + ToastsOfStatus(tLog, "error")

\* C1: in a purchase race never more than one of the three notifications
\* ("tickets purchased", "purchase canceled", the error toast) has been
\* raised, and once the race has settled exactly one has been, the one of
\* the outcome.
C1_OneRaceNotification ==
  outcome \in RaceOutcomes =>
    /\ RaceNotifications <= 1
    /\ Settled =>
         /\ RaceNotifications = 1
         /\ Toasts(tLog) = 1
         /\ outcome = "purchased" =>
              ToastsWith(tLog, PurchasedToast.title, "success") = 1
         /\ outcome = "purchaseCancelled" =>
              ToastsWith(tLog, PurchaseCanceledToast.title, "warning") = 1
         /\ outcome = "purchaseFailed" =>
              ToastsWith(tLog, generateErrorToastOptions(tErr, "hold").title, "error") = 1
C1_Witness ==
  /\ Settled /\ outcome = "purchaseCancelled" /\ ~latePurchase
  /\ RaceNotifications = 1

\* C2 as claimed: every settled transaction, the purchased one included, ran
\* cancelTransaction exactly once.
C2_CleanupOnceOnEveryPath ==
  Settled => Calls(tLog, "cancelTransaction") = 1
\* C2 as amended: cancelTransaction is never run twice in a transaction; a
\* settled transaction ran it (release call and resetTransaction) exactly
\* once on every path but the successful purchase, where it did not run.
C2_CleanupOnceUnlessPurchased ==
  /\ Calls(tLog, "cancelTransaction") <= 1
  /\ Puts(tLog, "resetTransaction") <= Calls(tLog, "cancelTransaction")
  /\ Settled =>
       IF outcome = "purchased"
       THEN Calls(tLog, "cancelTransaction") = 0 /\ Puts(tLog, "resetTransaction") = 0
       ELSE /\ Calls(tLog, "cancelTransaction") = 1
            /\ Puts(tLog, "resetTransaction") = 1
            /\ tLog[Len(tLog)] = Put("resetTransaction")
C2_Witness ==
  Settled /\ outcome = "holdFailed" /\ Calls(tLog, "cancelTransaction") = 1

\* C3: once the purchase race has settled, cancelTransaction has run exactly
\* once, on the original hold, if the purchase was cancelled or failed, and
\* not at all if it succeeded, where the hold was released and
\* endTransaction put instead.
C3_RaceCleanup ==
  (Settled /\ outcome \in RaceOutcomes) =>
    IF outcome = "purchased"
    THEN /\ Calls(tLog, "cancelTransaction") = 0
         /\ CallsOn(tLog, "releaseServerCall", TxHold) = 1
         /\ Puts(tLog, "endTransaction") = 1
    ELSE /\ Calls(tLog, "cancelTransaction") = 1
         /\ CallsOn(tLog, "cancelTransaction", TxHold) = 1
         /\ Puts(tLog, "endTransaction") = 0
C3_Witness ==
  /\ Settled /\ outcome = "purchaseFailed"
  /\ CallsOn(tLog, "cancelTransaction", TxHold) = 1

\* C4: when the abort action wins the purchase race, cancelSource.cancel is
\* called and cancelPurchaseServerCall is called for the purchase
\* reservation, both before the race settles: never only one of the two.
C4_BothCancellations ==
  outcome = "purchaseCancelled" =>
    /\ Calls(tLog, "cancelSource.cancel") = 1
    /\ cancelTokenUsed
    /\ Calls(tLog, "cancelPurchaseServerCall") = 1
    /\ CallsOn(tLog, "cancelPurchaseServerCall", TxPurchase) = 1
C4_Witness ==
  /\ Settled /\ outcome = "purchaseCancelled"
  /\ Calls(tLog, "cancelSource.cancel") = 1
  /\ CallsOn(tLog, "cancelPurchaseServerCall", TxPurchase) = 1

\* C5: when the purchase call returns before any abort, "tickets purchased"
\* is shown, the hold is released and endTransaction put, and
\* cancelSource.cancel, cancelPurchaseServerCall and "purchase canceled"
\* never happen on that path.
C5_SuccessfulPurchase ==
  outcome = "purchased" =>
    /\ ToastsWith(tLog, PurchasedToast.title, "success") = 1
    /\ Calls(tLog, "cancelSource.cancel") = 0
    /\ ~cancelTokenUsed
    /\ Calls(tLog, "cancelPurchaseServerCall") = 0
    /\ ToastsWith(tLog, PurchaseCanceledToast.title, "warning") = 0
    /\ CallsOn(tLog, "releaseServerCall", TxHold) = 1
    /\ Settled => Puts(tLog, "endTransaction") = 1
C5_Witness ==
  Settled /\ outcome = "purchased" /\ Puts(tLog, "endTransaction") = 1

\* C6: a hold that succeeded and is then released or aborted gets exactly
\* one releaseServerCall over the whole transaction, for that hold, and the
\* flow ends with no hold kept.
C6_OneReleaseCall ==
  outcome \in {"released", "aborted"} =>
    /\ Calls(tLog, "releaseServerCall") = 1
    /\ CallsOn(tLog, "releaseServerCall", TxHold) = 1
    /\ Settled => hold = NoRes
C6_Witness ==
  /\ Settled /\ outcome = "released" /\ hold = NoRes
  /\ TxHold = [showId |-> 0, holdId |-> 1, seatCount |-> 2]
  /\ CallsOn(tLog, "releaseServerCall", TxHold) = 1

SessionExists == userDetails # NoUser

\* C9 as claimed: a user is stored if and only if the coordinator is
\* SignedIn.
C9_SessionIffSignedIn == SessionExists <=> authPhase = "SignedIn"
\* C9 as amended: a user is stored whenever the coordinator is SignedIn; a
\* user stored outside SignedIn is the user of an earlier sign-in that was
\* still there when signInFlow took a new signInRequest.
C9_SessionIffSignedInUnlessStale ==
  /\ authPhase = "SignedIn" => SessionExists
  /\ (SessionExists /\ ~staleSession) => authPhase = "SignedIn"
  /\ staleSession => SessionExists
C9_Witness ==
  /\ authPhase = "SignedIn" /\ SessionExists /\ aPc = "awaiting"
  /\ Puts(aLog, "signIn") = 1

\* C10: once cancelSignIn was taken for an attempt, that attempt stores no
\* user and shows no "Signed in as" toast, and the response its abandoned
\* server call brings back later changes nothing.
AttemptCancelled == Calls(aLog, "cancel task") > 0
C10_CancelledAttemptNoSession ==
  /\ [](AttemptCancelled =>
          /\ ~SessionExists
          /\ Puts(aLog, "signIn") = 0
          /\ ToastsOfStatus(aLog, "info") = 0)
  /\ [][abandoned' < abandoned =>
          UNCHANGED <<userDetails, aLog, signInStatus, aPc, authPhase>>]_vars
C10_Witness ==
  /\ AttemptCancelled /\ abandoned = 0 /\ ~SessionExists
  /\ ToastsWith(aLog, SignInCanceledToast.title, "warning") = 1

\* C11: signInFlow never terminates: it is always either waiting for a
\* signInRequest or running an attempt, and once the pending authServerCall
\* returns or throws, or a cancelSignIn arrives, it waits for a signInRequest
\* again: an attempt in flight always leads back to the top of the loop.
C11_BackToAwaiting ==
  /\ [](aPc \in {"awaiting", "authenticating"})
  /\ [](aPc = "authenticating" => authCall = "pending")
  /\ (aPc = "authenticating") ~> (aPc = "awaiting")
\* a failed attempt has been settled and signInFlow waits again
C11_Witness ==
  /\ aPc = "awaiting"
  /\ ToastsOfStatus(aLog, "warning") = 1
  /\ Calls(aLog, "cancel task") = 0
  /\ Puts(aLog, "endSignIn") = 1
  /\ Puts(aLog, "signIn") = 0

\* C12: whatever the credentials and their intent (signIn or signUp), after
\* authServerCall has returned to an attempt that was not cancelled the
\* coordinator is SignedIn, the stored user is the returned user field by
\* field, and the attempt showed exactly one toast: the info toast
\* "Signed in as <email>" with the returned email.
C12_SignedInAsReturned ==
  /\ Puts(aLog, "signIn") > 0 =>
       /\ authResponse \in LoggedInUsers
       /\ Puts(aLog, "signIn") = 1
       /\ Toasts(aLog) = 1
       /\ ToastsWith(aLog, <<"Signed in as", authResponse.email>>, "info") = 1
       /\ Calls(aLog, "cancel task") = 0
       /\ creds \in SignInDetails
  /\ authPhase = "SignedIn" <=>
       /\ Puts(aLog, "signIn") > 0
       /\ userDetails = authResponse
       /\ DOMAIN userDetails = DOMAIN authResponse
       /\ aPc = "awaiting"
  /\ authResponse # NoUser => Puts(aLog, "signIn") > 0
\* a sign-up is answered with a user whose email is not the one of the form
C12_Witness ==
  /\ authPhase = "SignedIn"
  /\ creds.action = "signUp"
  /\ userDetails.email # creds.email
  /\ userDetails.id = MaxUserId
  /\ ToastsWith(aLog, <<"Signed in as", userDetails.email>>, "info") = 1

\* C13: when authServerCall throws with message r, the attempt shows exactly
\* one toast, the warning "Sign in failed: r" with r as thrown, puts no
\* signIn (a user stored now was stored before the attempt began), puts
\* endSignIn and leaves signInFlow waiting for the next signInRequest;
\* whatever the message (a server error, refused credentials), the effects
\* are the same.
C13_SignInFailed ==
  aErr # "" =>
       /\ aErr \in AuthErrors
       /\ Toasts(aLog) = 1
       /\ ToastsWith(aLog, <<"Sign in failed:", aErr>>, "warning") = 1
       /\ Puts(aLog, "signIn") = 0
       /\ Puts(aLog, "signOut") = 0
       /\ Puts(aLog, "endSignIn") = 1
       /\ userDetails # NoUser => staleSession
       /\ signInStatus = "idle"
       /\ aPc = "awaiting"
       /\ authPhase = "AwaitingCredentials"
       /\ aLog = signInFlowFork(creds) \o authenticateUserFailure(aErr)
\* a sign-up refused by the server
C13_Witness ==
  /\ aErr = "Email is already in use"
  /\ creds.action = "signUp"
  /\ aPc = "awaiting"
  /\ userDetails = NoUser
  /\ ToastsOfStatus(aLog, "warning") = 1

\* C14: when the purchase call throws with message r, purchaseTickets calls
\* cancelPurchaseServerCall once, with the purchase reservation; once that
\* call is back the transaction has shown exactly one toast, the error toast
\* of generateErrorToastOptions(r, hold) (the ticket action read is hold, not
\* purchase), and has called cancelTransaction once, with the hold payload;
\* the transaction ends with the hold released and resetTransaction.
C14_PurchaseFailed ==
  outcome = "purchaseFailed" =>
    /\ tErr \in ErrorTexts
    /\ Calls(tLog, "cancelPurchaseServerCall") = 1
    /\ CallsOn(tLog, "cancelPurchaseServerCall", TxPurchase) = 1
    /\ Calls(tLog, "cancelSource.cancel") = 0
    /\ tPc = "failCancelPurchase" =>
         Toasts(tLog) = 0 /\ Calls(tLog, "cancelTransaction") = 0
    /\ tPc # "failCancelPurchase" =>
         /\ Toasts(tLog) = 1
         /\ ToastsWith(tLog, generateErrorToastOptions(tErr, "hold").title, "error") = 1
         /\ ToastsWith(tLog, generateErrorToastOptions(tErr, "purchase").title, "error") = 0
         /\ Calls(tLog, "cancelTransaction") = 1
         /\ CallsOn(tLog, "cancelTransaction", TxHold) = 1
         /\ CallsOn(tLog, "releaseServerCall", TxHold) = Calls(tLog, "releaseServerCall")
    /\ Settled =>
         /\ Calls(tLog, "releaseServerCall") = 1
         /\ Puts(tLog, "resetTransaction") = 1
         /\ Puts(tLog, "endTransaction") = 0
\* a failed purchase, its reservation not the hold's, has been cleaned up
C14_Witness ==
  /\ Settled
  /\ outcome = "purchaseFailed"
  /\ tErr = "purchase failed"
  /\ TxPurchase # TxHold
  /\ CallsOn(tLog, "cancelPurchaseServerCall", TxPurchase) = 1

\* The hold calls of the transaction in tLog: the calls of
\* reserveTicketServerCall that are not the purchase call of the race.
HoldCalls == Calls(tLog, "reserveTicketServerCall") - Calls(tLog, "purchaseTickets")
\* The reservations the transaction handed to a call that releases a hold.
ReleasedHolds ==
  {tLog[i].res : i \in {j \in DOMAIN tLog :
      /\ tLog[j].kind = "call"
      /\ tLog[j].name \in {"releaseServerCall", "cancelTransaction", "releaseTickets"}}}

\* C17: a transaction has at most one hold.  ticketFlow makes one hold call,
\* with the payload it was started with; the hold it keeps while it runs is
\* that payload, and every release, cancelTransaction and releaseTickets of
\* the transaction is for that one hold.  When the flow is over no hold is
\* kept.
C17_OneHold ==
  /\ HoldCalls <= 1
  /\ tLog # <<>> => (HoldCalls = 1 /\ Head(tLog) = Call("reserveTicketServerCall", TxHold))
  /\ hold \in Reservations \cup {NoRes}
  /\ hold # NoRes => hold = TxHold
  /\ tPc = "idle" <=> hold = NoRes
  /\ ReleasedHolds \subseteq {TxHold}
\* a purchase is racing for a hold that is still kept
C17_Witness ==
  /\ tPc = "racing"
  /\ hold = TxHold
  /\ hold.holdId = MaxHoldId
  /\ purchase # hold
  /\ Calls(tLog, "reserveTicketServerCall") = 2

\* C18: once a transaction is over (tickets purchased, hold released,
\* transaction aborted after an error or a cancellation) nothing refers to
\* its hold any more: the ticket state keeps no hold and no purchase
\* reservation, and until the next startTicketHold begins a new transaction
\* with its own hold call no trigger and no late answer of the server makes
\* the sagas yield another effect; the purchase call left behind by an abort
\* changes nothing when it comes back.
C18_NoUseAfterTerminal ==
  /\ [](tPc = "idle" => (hold = NoRes /\ purchase = NoRes))
  /\ [](Settled => tLog[Len(tLog)] \in {Put("endTransaction"), Put("resetTransaction")})
  /\ [][(tPc = "idle" /\ tPc' = "idle") =>
          (tLog' = tLog /\ outcome' = outcome /\ hold' = NoRes)]_vars
  /\ [][(tPc = "idle" /\ tPc' # "idle") =>
          (tLog' = <<Call("reserveTicketServerCall", hold')>> /\ outcome' = "none")]_vars
  /\ [][(latePurchase /\ ~latePurchase') =>
          UNCHANGED <<tPc, hold, purchase, tLog, outcome>>]_vars
\* the purchase call left behind by an abort has come back after the
\* transaction was over
C18_Witness ==
  /\ Settled
  /\ outcome = "purchaseCancelled"
  /\ cancelTokenUsed
  /\ ~latePurchase
  /\ hold = NoRes
  /\ Puts(tLog, "resetTransaction") = 1

\* C20: a startTicketRelease or startTicketAbort dispatched while the hold
\* call is pending cancels that call, so the transaction neither stays in
\* the pending hold call nor goes on to wait with a hold nobody asked to
\* keep; dispatched after the hold call returned, it releases the hold.
C20_CancelReachesHoldCall ==
  /\ cancelWhileReserving => tPc \notin {"reserving", "held"}
  /\ outcome \in {"released", "aborted"} =>
       /\ CallsOn(tLog, "releaseTickets", TxHold) = 1
       /\ CallsOn(tLog, "releaseServerCall", TxHold) = 1

(***************************************************************************)
(* Properties of both coordinators together (AppSpec).                     *)
(***************************************************************************)
FailureOutcomes == {"holdFailed", "purchaseFailed"}
CancellationOutcomes == {"released", "aborted", "purchaseCancelled"}

\* C16: every failure and every cancellation raises exactly one toast.  A
\* ticket transaction that ended with a failed hold call or a failed
\* purchase call showed one toast, an error toast; one that ended with the
\* hold released or aborted, or the purchase cancelled, showed one toast, a
\* warning; a sign-in attempt whose authServerCall threw, and one that was
\* cancelled, showed one toast, a warning.  No transaction and no attempt
\* ever shows a second toast.
C16_OneNotificationPerOutcome ==
  /\ Toasts(tLog) <= 1
  /\ Toasts(aLog) <= 1
  /\ (Settled /\ outcome \in FailureOutcomes) =>
       Toasts(tLog) = 1 /\ ToastsOfStatus(tLog, "error") = 1
  /\ (Settled /\ outcome \in CancellationOutcomes) =>
       Toasts(tLog) = 1 /\ ToastsOfStatus(tLog, "warning") = 1
  /\ aErr # "" =>
       Toasts(aLog) = 1 /\ ToastsOfStatus(aLog, "warning") = 1
  /\ AttemptCancelled =>
       /\ Toasts(aLog) = 1
       /\ ToastsWith(aLog, SignInCanceledToast.title, "warning") = 1
\* a released hold and a cancelled sign-in in the same session
C16_Witness ==
  /\ Settled
  /\ outcome = "released"
  /\ AttemptCancelled
  /\ aPc = "awaiting"
  /\ Toasts(tLog) + Toasts(aLog) = 2

\* C24: every transaction returns to idle, ready for the next
\* startTicketHold, whichever path it takes: a flow that is running always
\* reaches idle with one of the six outcomes, provided every server call is
\* answered and a waiting hold gets one of its three triggers.
C24_BackToIdle ==
  /\ (tPc # "idle") ~> Settled
  /\ []((tPc = "idle") => ENABLED (\E h \in Reservations : StartHold(h)))
  /\ [](Settled => outcome \in {"holdFailed", "released", "aborted", "purchased",
                                 "purchaseCancelled", "purchaseFailed"})
\* a transaction whose purchase failed is over and the flow is idle again
C24_Witness ==
  /\ Settled
  /\ outcome = "purchaseFailed"
  /\ tPc = "idle"
  /\ hold = NoRes
  /\ Puts(tLog, "resetTransaction") = 1
  /\ Calls(tLog, "cancelPurchaseServerCall") = 1
  /\ tErr = "error"

\* The branches a transaction has entered after its hold.
BranchesTaken == Calls(tLog, "releaseTickets") + Calls(tLog, "purchaseTickets")

\* C25: after the hold call returned ticketFlow takes one of
\* startTicketPurchase, startTicketRelease, startTicketAbort and runs that
\* action's branch only: a transaction never has both a call of
\* releaseTickets and a call of purchaseTickets, a branch is entered only
\* from the waiting hold, and the triggers dispatched afterwards open no
\* second branch.
C25_OneBranch ==
  /\ [](BranchesTaken <= 1)
  /\ [](~(Calls(tLog, "releaseTickets") > 0 /\ Calls(tLog, "purchaseTickets") > 0))
  /\ [](tPc \in {"racing", "abortCancelPurchase", "failCancelPurchase",
                  "successRelease"} => Calls(tLog, "purchaseTickets") = 1)
  /\ [](outcome \in {"released", "aborted"} => Calls(tLog, "releaseTickets") = 1)
  /\ [](outcome \in {"purchased", "purchaseCancelled", "purchaseFailed"} =>
          Calls(tLog, "purchaseTickets") = 1)
  /\ [][BranchesTaken' > BranchesTaken => (tPc = "held" /\ BranchesTaken = 0)]_vars
\* the purchase branch was taken and then aborted: no call of releaseTickets
C25_Witness ==
  /\ outcome = "purchaseCancelled"
  /\ tPc = "cleanupRelease"
  /\ Calls(tLog, "purchaseTickets") = 1
  /\ Calls(tLog, "releaseTickets") = 0
  /\ Calls(tLog, "cancelTransaction") = 1

\* The abort action won the race of the transaction in tLog.
AbortWon == Calls(tLog, "cancelSource.cancel") > 0

\* C26: when startTicketAbort wins the race the purchase branch is over: the
\* transaction shows no "tickets purchased" toast and puts no
\* endTransaction, whatever happens afterwards, and the purchase call left
\* behind changes nothing when it comes back.
C26_LosingBranchTornDown ==
  /\ [](AbortWon =>
        /\ outcome = "purchaseCancelled"
        /\ ToastsWith(tLog, PurchasedToast.title, "success") = 0
        /\ ToastsOfStatus(tLog, "success") = 0
        /\ Puts(tLog, "endTransaction") = 0
        /\ tPc \in {"abortCancelPurchase", "cleanupRelease", "idle"})
  /\ [][AbortWon /\ ~AbortWon' => tPc' = "reserving"]_vars
  /\ [][(AbortWon /\ latePurchase /\ ~latePurchase') =>
          UNCHANGED <<tPc, hold, purchase, ticketAction, tLog, outcome>>]_vars
  /\ [][(~AbortWon /\ AbortWon') => (tPc = "racing" /\ latePurchase')]_vars
\* the abort won, the transaction is over and the purchase call has not come
\* back yet
C26_Witness ==
  /\ AbortWon
  /\ Settled
  /\ latePurchase
  /\ ToastsWith(tLog, PurchaseCanceledToast.title, "warning") = 1

\* C27: on the abort branch of the race the effects come in this order:
\* cancelSource.cancel, the call of cancelPurchaseServerCall, and only when
\* that call has returned the "purchase canceled" toast and cancelTransaction
\* with its call of releaseServerCall; only when the release call has
\* returned is the transaction reset and the flow idle.
C27_CancelPathOrder ==
  outcome = "purchaseCancelled" =>
    LET prefix == <<Call("reserveTicketServerCall", TxHold)>>
                    \o purchaseTicketsRace(TxPurchase)
        cancelled == <<Call("cancelSource.cancel", NoRes),
                       Call("cancelPurchaseServerCall", TxPurchase)>>
        cleanup == <<ShowToast(PurchaseCanceledToast),
                     Call("cancelTransaction", TxHold),
                     Call("releaseServerCall", TxHold)>>
    IN /\ tPc \in {"abortCancelPurchase", "cleanupRelease", "idle"}
       /\ tPc = "abortCancelPurchase" => tLog = prefix \o cancelled
       /\ tPc = "cleanupRelease" => tLog = prefix \o cancelled \o cleanup
       /\ tPc = "idle" =>
            tLog = prefix \o cancelled \o cleanup \o <<Put("resetTransaction")>>
       /\ tPc # "idle" => (hold = TxHold /\ ~Settled)
\* the purchase was cancelled on the server, the release call of the cleanup
\* has not returned yet
C27_Witness ==
  /\ outcome = "purchaseCancelled"
  /\ tPc = "cleanupRelease"
  /\ ~Settled
  /\ Puts(tLog, "resetTransaction") = 0
  /\ Calls(tLog, "releaseServerCall") = 1
  /\ TxPurchase # TxHold

ReleasePathOutcomes == {"released", "aborted"}
\* The reason of the warning toast the release path showed.
ReleaseToastReasons ==
  {r \in ReleaseReasons : ToastsWith(tLog, ReasonToast(r).title, "warning") > 0}

\* C23 as stated: on the release path the release call for the hold comes
\* first, the warning toast after it, cancelTransaction after the toast.
C23_ReleaseToastCleanup ==
  (outcome \in ReleasePathOutcomes /\ Settled) =>
    \E i, j, k \in DOMAIN tLog :
      /\ i < j /\ j < k
      /\ tLog[i] = Call("releaseServerCall", TxHold)
      /\ tLog[j].name = "showToast"
      /\ tLog[k] = Call("cancelTransaction", TxHold)
\* C23: a startTicketRelease or startTicketAbort taken after the hold call
\* returned makes ticketFlow call releaseTickets with the hold; the warning
\* toast with the trigger's reason comes first, then cancelTransaction of the
\* hold, whose call of releaseServerCall is the only release call; the
\* transaction is reset and the flow back in idle only when that call has
\* returned.  The effects are the same for either trigger.
C23_ReleasePath ==
  outcome \in ReleasePathOutcomes =>
    /\ Cardinality(ReleaseToastReasons) = 1
    /\ \A r \in ReleaseToastReasons :
         /\ tPc = "cleanupRelease" =>
              tLog = <<Call("reserveTicketServerCall", TxHold)>>
                       \o <<Call("releaseTickets", TxHold),
                            ShowToast([title |-> <<r>>, status |-> "warning"]),
                            Call("cancelTransaction", TxHold),
                            Call("releaseServerCall", TxHold)>>
         /\ tPc # "cleanupRelease" =>
              tLog = <<Call("reserveTicketServerCall", TxHold)>>
                       \o <<Call("releaseTickets", TxHold),
                            ShowToast([title |-> <<r>>, status |-> "warning"]),
                            Call("cancelTransaction", TxHold),
                            Call("releaseServerCall", TxHold),
                            Put("resetTransaction")>>
    /\ tPc \in {"cleanupRelease", "idle"}
    /\ tPc = "cleanupRelease" => hold = TxHold
    /\ tPc = "idle" => hold = NoRes
\* an abort with the reason "hold expired" went the release path to its end
C23_Witness ==
  /\ Settled
  /\ outcome = "aborted"
  /\ ReleaseToastReasons = {"hold expired"}
  /\ Calls(tLog, "releaseServerCall") = 1

\* The position of the first entry of `log` that is `effect` (0 when none).
PosOf(log, effect) ==
  IF \E i \in DOMAIN log : log[i] = effect
  THEN CHOOSE i \in DOMAIN log : log[i] = effect /\ \A j \in 1..(i-1) : log[j] # effect
  ELSE 0

\* C22: a cancelSignIn taken while an attempt is in flight makes the sagas
\* yield, in this order, cancel(task), the warning toast "Sign in canceled"
\* and put(signOut()), each once and after the attempt's server call was
\* made; signInFlow waits for the next signInRequest only in the step that
\* yielded all of them, and nothing of the cancelled attempt follows.
C22_CancelOrder ==
  /\ [](AttemptCancelled =>
        /\ Calls(aLog, "cancel task") = 1
        /\ ToastsWith(aLog, SignInCanceledToast.title, "warning") = 1
        /\ Puts(aLog, "signOut") = 1
        /\ PosOf(aLog, Call("authServerCall", NoRes)) > 0
        /\ PosOf(aLog, Call("authServerCall", NoRes))
             < PosOf(aLog, Call("cancel task", NoRes))
        /\ PosOf(aLog, Call("cancel task", NoRes))
             < PosOf(aLog, ShowToast(SignInCanceledToast))
        /\ PosOf(aLog, ShowToast(SignInCanceledToast))
             < PosOf(aLog, Put("signOut"))
        /\ PosOf(aLog, Put("signOut")) < PosOf(aLog, Put("endSignIn"))
        /\ PosOf(aLog, Put("endSignIn")) = Len(aLog)
        /\ aPc = "awaiting")
  /\ [][Calls(aLog', "cancel task") > Calls(aLog, "cancel task") =>
          /\ aPc = "authenticating" /\ authCall = "pending"
          /\ aPc' = "awaiting"
          /\ Puts(aLog', "signOut") > Puts(aLog, "signOut")
          /\ userDetails' = NoUser]_vars
\* an attempt to sign in was cancelled and signInFlow waits again
C22_Witness ==
  /\ AttemptCancelled
  /\ aPc = "awaiting"
  /\ creds.action = "signIn"
  /\ Len(aLog) = 7
  /\ aLog[4] = Call("cancel task", NoRes)

\* C28: a cancelSignIn dispatched while signInFlow waits for a signInRequest
\* is taken by nobody and changes nothing; the attempt the next
\* signInRequest starts has its server call pending and no cancel(task), and
\* it ends by its own outcome, a stored user or a failure toast, unless a
\* cancelSignIn arrives while it is in flight.
C28_StrayCancelForgotten ==
  /\ [](strayCancel = "attempt" =>
        /\ Calls(aLog, "cancel task") = 0
        /\ ToastsWith(aLog, SignInCanceledToast.title, "warning") = 0
        /\ aPc = "authenticating" => (authCall = "pending" /\ signInStatus = "pending")
        /\ aPc = "awaiting" => (Puts(aLog, "signIn") = 1 \/ aErr # ""))
  /\ [][(strayCancel # "dispatched" /\ strayCancel' = "dispatched") =>
          /\ aPc = "awaiting"
          /\ UNCHANGED <<aPc, authCall, creds, userDetails, signInStatus, aLog,
                         abandoned, authResponse, aErr>>]_vars
  /\ [][(strayCancel = "dispatched" /\ strayCancel' # "dispatched") =>
          /\ strayCancel' = "attempt"
          /\ aPc' = "authenticating"
          /\ authCall' = "pending"
          /\ Calls(aLog', "authServerCall") = 1]_vars
\* a sign-in requested after a stray cancelSignIn has signed the user in
C28_Witness ==
  /\ strayCancel = "attempt"
  /\ authPhase = "SignedIn"
  /\ userDetails = authResponse
  /\ Puts(aLog, "signIn") = 1
  /\ creds.email = "other@user.com"

\* The calls of reserveTicketServerCall in tLog, those of the purchase
\* included, and the calls of authServerCall in aLog.
ReserveCalls == Calls(tLog, "reserveTicketServerCall")
AuthCalls == Calls(aLog, "authServerCall")

\* C29: neither saga calls the server again after a failure.  A transaction
\* whose hold call threw has made that one call of reserveTicketServerCall,
\* one whose purchase call threw has made the hold call and one purchase
\* call, an attempt whose authServerCall threw has made one call; a further
\* call of either function is made only in the step that takes a
\* startTicketHold (no flow running), a startTicketPurchase (flow waiting
\* with its hold) or a signInRequest (signInFlow waiting).
C29_NoRetry ==
  /\ [](outcome = "holdFailed" =>
          (ReserveCalls = 1 /\ CallsOn(tLog, "reserveTicketServerCall", TxHold) = 1))
  /\ [](outcome = "purchaseFailed" =>
          (ReserveCalls = 2 /\ Calls(tLog, "purchaseTickets") = 1))
  /\ [](aErr # "" => AuthCalls = 1)
  /\ [](ReserveCalls <= 2 /\ AuthCalls <= 1)
  /\ [][(ReserveCalls' > ReserveCalls \/ (tLog' # tLog /\ Len(tLog') <= Len(tLog))) =>
          \/ tPc = "idle" /\ tPc' = "reserving" /\ ReserveCalls' = 1
          \/ tPc = "held" /\ tPc' = "racing" /\ outcome = "none"
               /\ ReserveCalls' = 2]_vars
  /\ [][(AuthCalls' > AuthCalls \/ (aLog' # aLog /\ Len(aLog') <= Len(aLog))) =>
          (aPc = "awaiting" /\ aPc' = "authenticating" /\ AuthCalls' = 1)]_vars
\* a failed purchase and a failed sign-in in the same session, each server
\* function called once for what failed
C29_Witness ==
  /\ Settled
  /\ outcome = "purchaseFailed"
  /\ aErr = "Something went wrong"
  /\ aPc = "awaiting"
  /\ ReserveCalls = 2
  /\ AuthCalls = 1

\* C30: a signOut dispatched while a user is signed in drops the stored
\* user and leaves the coordinator in AwaitingCredentials with signInFlow at
\* the top of its loop, where the next signInRequest starts an attempt.
C30_SignOutFromSignedIn ==
  /\ [](authPhase = "SignedIn" =>
          (userDetails # NoUser /\ aPc = "awaiting" /\ authCall = "none"))
  /\ [][(authPhase = "SignedIn" /\ userDetails' = NoUser) =>
          /\ authPhase' = "AwaitingCredentials"
          /\ aPc' = "awaiting"
          /\ authCall' = "none"
          /\ signInStatus' = "idle"
          /\ UNCHANGED <<aLog, creds>>]_vars
  /\ [][(authPhase = "SignedIn" /\ authPhase' # "SignedIn") =>
          \/ userDetails' = NoUser
          \/ aPc' = "authenticating" /\ authPhase' = "Authenticating"]_vars
  /\ [][(authPhase = "AwaitingCredentials" /\ userDetails = NoUser
          /\ aLog' # aLog /\ aPc = "awaiting") =>
          (aPc' = "authenticating" /\ authCall' = "pending"
           /\ aLog' = signInFlowFork(creds'))]_vars
\* the user of a successful attempt has signed out: the attempt's effects
\* are still the last ones, the stored user is gone
C30_Witness ==
  /\ authPhase = "AwaitingCredentials"
  /\ aPc = "awaiting"
  /\ userDetails = NoUser
  /\ authResponse \in LoggedInUsers
  /\ Puts(aLog, "signIn") = 1
  /\ Calls(aLog, "cancel task") = 0

\* C33: a startTicketAbort dispatched after the purchase call has returned
\* is taken by no saga and changes nothing of the transaction: the cancel
\* token is not used, cancelPurchaseServerCall, cancelTransaction and
\* releaseTickets are not called, no "purchase canceled" toast is shown,
\* and the flow ends with endTransaction after the one "tickets purchased"
\* toast and the release of the hold.
C33_LateAbortIgnored ==
  /\ [](abortAfterPurchase =>
        /\ outcome = "purchased"
        /\ ~cancelTokenUsed
        /\ Calls(tLog, "cancelSource.cancel") = 0
        /\ Calls(tLog, "cancelPurchaseServerCall") = 0
        /\ Calls(tLog, "cancelTransaction") = 0
        /\ Calls(tLog, "releaseTickets") = 0
        /\ ToastsWith(tLog, PurchaseCanceledToast.title, "warning") = 0
        /\ ToastsWith(tLog, PurchasedToast.title, "success") = 1
        /\ Toasts(tLog) = 1
        /\ Puts(tLog, "resetTransaction") = 0
        /\ CallsOn(tLog, "releaseServerCall", TxHold) = 1)
  /\ []((abortAfterPurchase /\ Settled) =>
        (Puts(tLog, "endTransaction") = 1
         /\ tLog[Len(tLog)] = Put("endTransaction")))
  /\ [][(abortAfterPurchase' /\ ~abortAfterPurchase) =>
          /\ outcome = "purchased"
          /\ UNCHANGED <<tPc, hold, purchase, ticketAction, tErr, tLog, outcome,
                         cancelTokenUsed, latePurchase>>]_vars
\* an abort was dispatched after the purchase call had returned, and the
\* flow has ended with endTransaction
C33_Witness ==
  /\ abortAfterPurchase
  /\ Settled
  /\ outcome = "purchased"
  /\ Puts(tLog, "endTransaction") = 1

\* C34: a transaction signals one terminal marker at most, and which one is
\* decided by the outcome: endTransaction only after a purchase, and then
\* without cancelTransaction; resetTransaction only after a failure or a
\* cancellation, as the last effect of the one cancelTransaction.  A
\* transaction that is over has signalled its marker.
C34_TerminalMarkerByOutcome ==
  /\ [](Puts(tLog, "endTransaction") + Puts(tLog, "resetTransaction") <= 1)
  /\ [](Puts(tLog, "endTransaction") = 1 =>
        /\ outcome = "purchased"
        /\ Calls(tLog, "cancelTransaction") = 0
        /\ tLog[Len(tLog)] = Put("endTransaction"))
  /\ [](Puts(tLog, "resetTransaction") = 1 =>
        /\ outcome \in FailureOutcomes \cup CancellationOutcomes
        /\ CallsOn(tLog, "cancelTransaction", TxHold) = 1
        /\ Calls(tLog, "cancelTransaction") = 1
        /\ PosOf(tLog, Call("cancelTransaction", TxHold)) < Len(tLog)
        /\ tLog[Len(tLog)] = Put("resetTransaction"))
  /\ [](Settled =>
        /\ (outcome = "purchased") = (Puts(tLog, "endTransaction") = 1)
        /\ (outcome \in FailureOutcomes \cup CancellationOutcomes)
             = (Puts(tLog, "resetTransaction") = 1))
  /\ [](outcome = "purchased" => Calls(tLog, "cancelTransaction") = 0)
\* a purchase whose call threw has ended through cancelTransaction
C34_Witness ==
  /\ Settled
  /\ outcome = "purchaseFailed"
  /\ Puts(tLog, "resetTransaction") = 1
  /\ Puts(tLog, "endTransaction") = 0
  /\ Calls(tLog, "cancelTransaction") = 1

\* The authenticateUser tasks signInFlow forked in the attempt in aLog.
ForkedTasks == Calls(aLog, "fork authenticateUser")

\* C31: while an attempt is in flight signInFlow takes cancelSignIn and
\* endSignIn only: a signInRequest dispatched then is taken by nobody and
\* changes nothing, so an attempt has one forked authenticateUser task and
\* one call of authServerCall, a task is running only while signInFlow is in
\* the attempt, and a task is forked only from the top of the loop.
C31_OneAuthTask ==
  /\ [](ForkedTasks <= 1 /\ Calls(aLog, "authServerCall") <= 1)
  /\ [](aPc = "authenticating" => (ForkedTasks = 1 /\ authCall = "pending"))
  /\ [](authCall = "pending" => aPc = "authenticating")
  /\ [][("signInRequest" \in untaken' /\ "signInRequest" \notin untaken) =>
          /\ aPc = "authenticating"
          /\ UNCHANGED <<aPc, authCall, creds, userDetails, signInStatus, aLog,
                         abandoned, authResponse, aErr>>]_vars
  /\ [][aPc = "authenticating" =>
          Calls(aLog', "fork authenticateUser") = ForkedTasks]_vars
\* a signInRequest was dispatched during the attempt that is still in flight
C31_Witness ==
  /\ "signInRequest" \in untaken
  /\ aPc = "authenticating"
  /\ authCall = "pending"
  /\ ForkedTasks = 1
  /\ Calls(aLog, "authServerCall") = 1

\* C32: a signOut dispatched while authServerCall is pending is not taken by
\* signInFlow: it cancels no task, the call stays pending, and the attempt
\* ends with the user of the response stored, with the failure toast, or
\* with a cancelSignIn taken later; cancel(task) is yielded only in the step
\* that takes a cancelSignIn.
C32_SignOutDoesNotCancel ==
  /\ []("signOut" \in untaken =>
        /\ aPc = "authenticating" =>
             (authCall = "pending" /\ Calls(aLog, "cancel task") = 0
              /\ signInStatus = "pending")
        /\ aPc = "awaiting" =>
             \/ Puts(aLog, "signIn") = 1 /\ authResponse \in LoggedInUsers
             \/ aErr # "" /\ ToastsWith(aLog, <<"Sign in failed:", aErr>>, "warning") = 1
             \/ AttemptCancelled
                  /\ ToastsWith(aLog, SignInCanceledToast.title, "warning") = 1)
  /\ [][("signOut" \in untaken' /\ "signOut" \notin untaken) =>
          /\ aPc = "authenticating" /\ authCall = "pending"
          /\ userDetails' = NoUser
          /\ UNCHANGED <<aPc, authCall, creds, signInStatus, aLog, abandoned,
                         authResponse, aErr>>]_vars
  /\ [][Calls(aLog', "cancel task") > Calls(aLog, "cancel task") =>
          (ToastsWith(aLog', SignInCanceledToast.title, "warning") = 1
           /\ Puts(aLog', "endSignIn") = 1)]_vars
\* signOut was dispatched during an attempt, and the attempt has signed the
\* user in afterwards
C32_Witness ==
  /\ "signOut" \in untaken
  /\ authPhase = "SignedIn"
  /\ userDetails = authResponse
  /\ Puts(aLog, "signIn") = 1
  /\ Calls(aLog, "cancel task") = 0

(***************************************************************************)
(* Properties of the toast logging saga (ToastLogSpec).                    *)
(***************************************************************************)
ReceivedWith(title, status) ==
  Len(SelectSeq(received, LAMBDA o : o.title = title /\ o.status = status))
LoggedWith(title) ==
  Len(SelectSeq(logged, LAMBDA e : e.kind = "call" /\ e.name = "logErrorToast"
                                    /\ e.title = title))

\* C21: logErrorToasts calls logErrorToast with the title of the toast it
\* received exactly when the toast's status is "error": every title was
\* logged as often as it was received in an error toast, and the toasts of
\* any other status caused no effect at all.
C21_LogsErrorToastsOnly ==
  /\ \A t \in ToastTitles : LoggedWith(t) = ReceivedWith(t, "error")
  /\ Len(logged) = Len(SelectSeq(received, LAMBDA o : o.status = "error"))
  /\ (\A i \in DOMAIN received : received[i].status # "error") => logged = <<>>
\* an info toast and an error toast were received, the error toast's title
\* was logged
C21_Witness ==
  /\ received = <<[title |-> <<"It's OK!">>, status |-> "info"],
                  [title |-> <<"It's time to panic">>, status |-> "error"]>>
  /\ logged = <<CallLogErrorToast(<<"It's time to panic">>)>>
====
